---- MODULE Spec2Model ----
(***************************************************************************)
(* Endpoint availability monitor (src/main.py): check_health probes one    *)
(* endpoint, monitor_endpoints fans the probes out with asyncio.gather,    *)
(* aggregates the results per domain and paces the cycles to 15 seconds.   *)
(*                                                                         *)
(* Time is counted in ticks of 500 ms, from the start of the current       *)
(* cycle: the program only ever uses differences of time.time().           *)
(* Synchronous code between two awaits takes no time except where an       *)
(* action draws a delay.                                                   *)
(***************************************************************************)
EXTENDS Integers, Sequences, FiniteSets, TLC

\* ------------------------------------------------------------------ bounds
MaxEndpoints == 2      \* longest configured endpoint list
MaxCycles == 2         \* cycles the loop is followed for
MaxCount == 8          \* cycles counted into the counters of SummarySpec

\* ------------------------------------------------------- program constants
Timeout == 1           \* ClientTimeout(total=0.5): 500 ms = 1 tick
CycleInterval == 30    \* max(0, 15 - time_elapsed): 15 s = 30 ticks

\* Status codes a response can carry (boundaries of [200,300) and a 5xx).
StatusCodes == {199, 200, 299, 300, 500}

\* Synchronous time a cycle may spend between the join and reading the clock
\* for time_elapsed (blocking log writes, a stalled event loop).
ProcDelays == {0, CycleInterval}

\* ------------------------------------------------------------------- URLs
\* A URL is the sequence of its characters.
UrlPing == <<"h", "t", "t", "p", ":", "/", "/", "h", "o", "s", "t", "1", "/", "p", "i", "n", "g">>
UrlHealth == <<"h", "t", "t", "p", ":", "/", "/", "h", "o", "s", "t", "1", ":", "8", "0", "8", "0", "/", "h", "e", "a", "l", "t", "h">>
UrlHost2 == <<"h", "t", "t", "p", ":", "/", "/", "h", "o", "s", "t", "2", "/", "p", "i", "n", "g">>
UrlBad == <<"h", "t", "t", "p", ":", "/", "/", "[", "h", "o", "s", "t", "1", "/", "p", "i", "n", "g">>

\* An endpoint is a dict: a record whose DOMAIN is the set of keys present.
\* headers and body are passed through to the request and decide nothing.
EndpointPool ==
    { [name |-> "svc-a", url |-> UrlPing],
      [name |-> "svc-b", url |-> UrlHealth, method |-> "POST"],
      [name |-> "", url |-> UrlHost2],
      [name |-> "svc-e"],
      [url |-> <<>>],
      [name |-> "svc-x", url |-> UrlBad] }

\* load_config: the parsed YAML list, read once.
Configs == UNION { [1..n -> EndpointPool] : n \in 0..MaxEndpoints }

\* ------------------------------------------------------------ urlparse(url)
AsciiAlpha ==
    {"a", "b", "c", "d", "e", "f", "g", "h", "i", "j", "k", "l", "m", "n", "o",
     "p", "q", "r", "s", "t", "u", "v", "w", "x", "y", "z", "A", "B", "C", "D",
     "E", "F", "G", "H", "I", "J", "K", "L", "M", "N", "O", "P", "Q", "R", "S",
     "T", "U", "V", "W", "X", "Y", "Z"}
SchemeChars ==
    AsciiAlpha \cup {"0", "1", "2", "3", "4", "5", "6", "7", "8", "9", "+", "-", "."}

\* str.find over a set of characters, from position `from`; 0 when absent.
Find(s, chars, from) ==
    LET hits == {i \in from..Len(s) : s[i] \in chars}
    IN  IF hits = {} THEN 0 ELSE CHOOSE i \in hits : \A j \in hits : i <= j

\* urlsplit: the text after "<scheme>:" when the prefix is a scheme.
UrlAfterScheme(url) ==
    LET i == Find(url, {":"}, 1)
    IN  IF i > 1 /\ url[1] \in AsciiAlpha /\ \A k \in 1..(i - 1) : url[k] \in SchemeChars
        THEN SubSeq(url, i + 1, Len(url))
        ELSE url

\* urlsplit / _splitnetloc: the text between "//" and the first of / ? #.
Netloc(url) ==
    LET rest == UrlAfterScheme(url)
    IN  IF Len(rest) >= 2 /\ rest[1] = "/" /\ rest[2] = "/"
        THEN LET d == Find(rest, {"/", "?", "#"}, 3)
             IN  SubSeq(rest, 3, IF d = 0 THEN Len(rest) ELSE d - 1)
        ELSE <<>>

\* urlsplit raises ValueError("Invalid IPv6 URL") on an unbalanced bracket.
UrlparseRaises(url) ==
    LET n == Netloc(url)
    IN  (Find(n, {"["}, 1) # 0) # (Find(n, {"]"}, 1) # 0)

\* Faulty variant of DomainOf: the port is not stripped from the netloc.
DomainWithPort(url) == Netloc(url)

\* parsed_url.netloc.split(":")[0]
DomainOf(url) ==
    LET n == Netloc(url)
        c == Find(n, {":"}, 1)
    IN  IF c = 0 THEN n ELSE SubSeq(n, 1, c - 1)

\* ------------------------------------------------------------ check_health
\* dict.get(key, default)
Get(e, k, d) == IF k \in DOMAIN e THEN e[k] ELSE d

\* name = endpoint.get("name", "unknown"); `if not name` sees an empty name
\* only: a missing key already holds the truthy default.
NameEmpty(e) == "name" \in DOMAIN e /\ e.name = ""
NameOf(e) == IF NameEmpty(e) THEN "unknown" ELSE Get(e, "name", "unknown")

\* Faulty variant of UrlMissing: only a missing key counts, "" is requested.
UrlKeyMissing(e) == "url" \notin DOMAIN e

\* url = endpoint.get("url"); `if not url`: missing key or empty string.
UrlMissing(e) == "url" \notin DOMAIN e \/ e.url = <<>>

\* method = endpoint.get("method", "GET")
MethodOf(e) == Get(e, "method", "GET")

\* Outcomes of one session.request within the 500 ms budget.
Outcomes ==
    [kind : {"response"}, status : StatusCodes]
        \cup {[kind |-> "timeout", status |-> 0], [kind |-> "error", status |-> 0]}

\* A URL the client cannot parse never reaches the network: the request
\* fails with an error.
OutcomesFor(e) ==
    IF UrlparseRaises(e.url) THEN {[kind |-> "error", status |-> 0]} ELSE Outcomes

\* Faulty variant of Classify: the upper end is off by one.
ClassifyInclusive(c) == IF 200 <= c /\ c <= 300 THEN "UP" ELSE "DOWN"

\* if 200 <= response.status < 300: UP else DOWN
Classify(c) == IF 200 <= c /\ c < 300 THEN "UP" ELSE "DOWN"

\* Faulty variant of OnOutcome: no `except Exception`, an error propagates.
OnOutcomeNoCatch(e, o) ==
    CASE o.kind = "response" ->
            [raised |-> FALSE, name |-> NameOf(e), status |-> Classify(o.status), diag |-> <<>>]
      [] o.kind = "timeout" ->
            [raised |-> FALSE, name |-> NameOf(e), status |-> "DOWN",
             diag |-> <<"timed out">>]
      [] OTHER ->
            [raised |-> TRUE, name |-> NameOf(e), status |-> "NONE", diag |-> <<>>]

\* Faulty variant of OnOutcome: a timeout is classified but not logged.
OnOutcomeQuietTimeout(e, o) ==
    CASE o.kind = "response" ->
            [raised |-> FALSE, name |-> NameOf(e), status |-> Classify(o.status), diag |-> <<>>]
      [] o.kind = "timeout" ->
            [raised |-> FALSE, name |-> NameOf(e), status |-> "DOWN", diag |-> <<>>]
      [] OTHER ->
            [raised |-> FALSE, name |-> NameOf(e), status |-> "DOWN",
             diag |-> <<"failed">>]

\* The try/except around the request: what check_health returns and logs
\* for each outcome.
OnOutcome(e, o) ==
    CASE o.kind = "response" ->
            [raised |-> FALSE, name |-> NameOf(e), status |-> Classify(o.status), diag |-> <<>>]
      [] o.kind = "timeout" ->
            [raised |-> FALSE, name |-> NameOf(e), status |-> "DOWN",
             diag |-> <<"timed out">>]
      [] OTHER ->
            [raised |-> FALSE, name |-> NameOf(e), status |-> "DOWN",
             diag |-> <<"failed">>]

\* ----------------------------------------------------------- domain_stats
\* defaultdict(lambda: {"up": 0, "total": 0}) read at key d.
StatsAt(stats, d) == IF d \in DOMAIN stats THEN stats[d] ELSE [up |-> 0, total |-> 0]

\* Faulty variant of Availability: the quotient is truncated, not rounded.
AvailabilityFloor(up, total) == (100 * up) \div total

\* round(100 * up / total): Python rounds a tie to the even integer.
Availability(up, total) ==
    LET q == (100 * up) \div total
        r == (100 * up) % total
    IN  IF 2 * r < total THEN q
        ELSE IF 2 * r > total THEN q + 1
        ELSE IF q % 2 = 0 THEN q ELSE q + 1



\* Faulty variant of Awaiting: the aggregation loop awaits too (an
\* asynchronous logger), so cancellation is delivered inside it.
AwaitingOrAggregating(p) == p \in {"gather", "aggregate", "sleep"}

\* The awaits of monitor_endpoints: `await gather(...)` and `await sleep(...)`.
Awaiting(p) == p \in {"gather", "sleep"}

\* Faulty variant of Record: total counts the UP observations only.
RecordUpOnly(stats, d, status) ==
    [x \in DOMAIN stats \cup {d} |->
        IF x = d /\ status = "UP"
        THEN [up |-> StatsAt(stats, d).up + 1, total |-> StatsAt(stats, d).total + 1]
        ELSE StatsAt(stats, x)]

\* Faulty variant of Record: the two counters are exchanged, up counts
\* every observation and total the UP ones.
RecordSwapped(stats, d, status) ==
    [x \in DOMAIN stats \cup {d} |->
        IF x = d
        THEN [up |-> StatsAt(stats, d).up + 1,
              total |-> StatsAt(stats, d).total + (IF status = "UP" THEN 1 ELSE 0)]
        ELSE stats[x]]

\* Faulty variant of Record: the first observation of a domain only creates
\* its counters, at zero; it is not counted.
RecordFirstUncounted(stats, d, status) ==
    [x \in DOMAIN stats \cup {d} |->
        IF x = d /\ d \in DOMAIN stats
        THEN [up |-> stats[d].up + (IF status = "UP" THEN 1 ELSE 0),
              total |-> stats[d].total + 1]
        ELSE StatsAt(stats, x)]

\* domain_stats[domain]["total"] += 1; if status == "UP": ["up"] += 1
Record(stats, d, status) ==
    [x \in DOMAIN stats \cup {d} |->
        IF x = d
        THEN [up |-> StatsAt(stats, d).up + (IF status = "UP" THEN 1 ELSE 0),
              total |-> StatsAt(stats, d).total + 1]
        ELSE stats[x]]

\* ------------------------------------------------------------------ state
VARIABLES
    config,              \* load_config(file_path)
    session,             \* "none" | "open" | "closed": the ClientSession
    pc,                  \* position of monitor_endpoints / the process
    cycle,               \* cycles started so far
    now,                 \* time.time(), counted from the cycle's start
    check_cycle_start,
    probe,               \* per endpoint: this cycle's check_health task
    results,             \* what gather returned
    idx,                 \* position of the zip(config, results) loop
    domains_this_cycle,
    domain_stats,
    key_order,           \* insertion order of domain_stats's keys
    time_elapsed,
    sleep_time,
    log,                 \* records emitted through logger, this cycle
    cycle_base,          \* history: domain_stats when this cycle started
    committed            \* history: domain_stats when the last aggregation ended

vars ==
    <<config, session, pc, cycle, now, check_cycle_start, probe,
      results, idx, domains_this_cycle, domain_stats, key_order, time_elapsed,
      sleep_time, log, cycle_base, committed>>

N == Len(config)

NoStats == [d \in {} |-> [up |-> 0, total |-> 0]]

\* A coroutine object that has not run: check_health(endpoint, session).
NewTask ==
    [st |-> "created", requests |-> 0, method |-> "", started |-> 0, finished |-> 0,
     outcome |-> "none", code |-> 0, name |-> "", status |-> "NONE"]

\* A task gather has returned the result of: nothing of it is read again.
Returned == [NewTask EXCEPT !.st = "returned"]

\* logger.warning / logger.error of check_health, for endpoint i.
Diag(what, i) ==
    [kind |-> "diag", level |-> IF what = "missing name" THEN "warning" ELSE "error",
     what |-> what, ep |-> i]

Init ==
    /\ config \in Configs
    /\ session = "none"
    /\ pc = "init"
    /\ cycle = 0
    /\ now = 0
    /\ check_cycle_start = 0
    /\ probe = [i \in 1..Len(config) |-> NewTask]
    /\ results = <<>>
    /\ idx = 0
    /\ domains_this_cycle = {}
    /\ domain_stats = NoStats
    /\ key_order = <<>>
    /\ time_elapsed = 0
    /\ sleep_time = 0
    /\ log = <<>>
    /\ cycle_base = NoStats
    /\ committed = NoStats

\* async with ClientSession() as session
OpenSession ==
    /\ pc = "init"
    /\ session' = "open"
    /\ pc' = "cycle_start"
    /\ UNCHANGED <<config, cycle, now, check_cycle_start, probe,
                   results, idx, domains_this_cycle, domain_stats, key_order,
                   time_elapsed, sleep_time, log, cycle_base, committed>>

\* Top of `while True`: the start timestamp, the start marker, one coroutine
\* per endpoint, and the call of gather that schedules them all.  The
\* locals of the previous iteration that are assigned before they are read
\* again (results, time_elapsed, sleep_time) are cleared here.
StartCycle ==
    /\ pc = "cycle_start"
    /\ cycle < MaxCycles
    /\ cycle' = cycle + 1
    /\ now' = 0
    /\ check_cycle_start' = now'
    /\ log' = <<[kind |-> "start"]>>
    /\ probe' = [i \in 1..N |-> NewTask]
    /\ results' = <<>>
    /\ cycle_base' = domain_stats
    /\ pc' = "gather"
    /\ time_elapsed' = 0
    /\ sleep_time' = 0
    /\ UNCHANGED <<config, session, idx, domains_this_cycle,
                   domain_stats, key_order, committed>>

\* Faulty variant of Scheduled: each coroutine is awaited before the next
\* one starts, instead of all being gathered.
ScheduledInTurn(i) ==
    /\ probe[i].st = "created"
    /\ \A j \in 1..(i - 1) : probe[j].st \in {"done", "raised"}

\* Task i's first step is next in the event loop's ready queue: gather
\* wrapped every coroutine in a task, and the loop runs them first in, first out.
Scheduled(i) ==
    /\ probe[i].st = "created"
    /\ \A j \in 1..(i - 1) : probe[j].st # "created"

\* check_health up to its first suspension: the name and url checks, then
\* session.request(...) under a 500 ms total timeout.
StartProbe(i) ==
    /\ pc = "gather"
    /\ Scheduled(i)
    /\ LET e == config[i]
           warn == IF NameEmpty(e) THEN <<Diag("missing name", i)>> ELSE <<>>
       IN  IF UrlMissing(e)
           THEN /\ probe' = [probe EXCEPT ![i] =
                        [@ EXCEPT !.st = "done", !.started = now, !.finished = now,
                                  !.name = NameOf(e), !.status = "DOWN"]]
                /\ log' = log \o warn \o <<Diag("missing url", i)>>
           ELSE /\ probe' = [probe EXCEPT ![i] =
                        [@ EXCEPT !.st = "inflight", !.started = now, !.requests = @ + 1,
                                  !.method = MethodOf(e)]]
                /\ log' = log \o warn
    /\ UNCHANGED <<config, session, pc, cycle, now, check_cycle_start,
                   results, idx, domains_this_cycle, domain_stats, key_order,
                   time_elapsed, sleep_time, cycle_base, committed>>

\* The event loop polls for I/O only once its ready queue is empty.
LoopIdle == \A j \in 1..N : ~Scheduled(j)

InFlight == {j \in 1..N : probe[j].st = "inflight"}

\* Faulty variant of FinishProbe: a request that timed out or failed is
\* sent once more before the task gives up.
FinishProbeRetry(i, o) ==
    /\ pc = "gather"
    /\ LoopIdle
    /\ i \in InFlight
    /\ o \in OutcomesFor(config[i])
    /\ IF o.kind = "timeout"
       THEN now = probe[i].started + Timeout
       ELSE now < probe[i].started + Timeout
    /\ LET r == OnOutcome(config[i], o)
       IN  IF o.kind \in {"timeout", "error"} /\ probe[i].requests < 2
           THEN /\ probe' = [probe EXCEPT ![i] =
                        [@ EXCEPT !.started = now, !.requests = @ + 1]]
                /\ log' = log
           ELSE /\ probe' = [probe EXCEPT ![i] =
                        [@ EXCEPT !.st = IF r.raised THEN "raised" ELSE "done",
                                  !.finished = now, !.outcome = o.kind, !.code = o.status,
                                  !.name = r.name, !.status = r.status]]
                /\ log' = log \o [k \in 1..Len(r.diag) |-> Diag(r.diag[k], i)]
    /\ UNCHANGED <<config, session, pc, cycle, now, check_cycle_start,
                   results, idx, domains_this_cycle, domain_stats, key_order,
                   time_elapsed, sleep_time, cycle_base, committed>>

\* The request of endpoint i ends with outcome o: a response or an error
\* before the timeout expires, the timeout when it expires.
FinishProbe(i, o) ==
    /\ pc = "gather"
    /\ LoopIdle
    /\ i \in InFlight
    /\ o \in OutcomesFor(config[i])
    /\ IF o.kind = "timeout"
       THEN now = probe[i].started + Timeout
       ELSE now < probe[i].started + Timeout
    /\ LET r == OnOutcome(config[i], o)
       IN  /\ probe' = [probe EXCEPT ![i] =
                   [@ EXCEPT !.st = IF r.raised THEN "raised" ELSE "done",
                             !.finished = now, !.outcome = o.kind, !.code = o.status,
                             !.name = r.name, !.status = r.status]]
           /\ log' = log \o [k \in 1..Len(r.diag) |-> Diag(r.diag[k], i)]
    /\ UNCHANGED <<config, session, pc, cycle, now, check_cycle_start,
                   results, idx, domains_this_cycle, domain_stats, key_order,
                   time_elapsed, sleep_time, cycle_base, committed>>

\* Time passes while requests are in flight; no request outlives its
\* timeout, and a request that never reaches the network has failed before
\* any time passes.
Tick ==
    /\ pc = "gather"
    /\ LoopIdle
    /\ InFlight # {}
    /\ \A j \in InFlight : now < probe[j].started + Timeout
    /\ \A j \in InFlight : [kind |-> "timeout", status |-> 0] \in OutcomesFor(config[j])
    /\ now' = now + 1
    /\ UNCHANGED <<config, session, pc, cycle, check_cycle_start,
                   probe, results, idx, domains_this_cycle, domain_stats, key_order,
                   time_elapsed, sleep_time, log, cycle_base, committed>>

\* Faulty variant of Join: the join returns as soon as one task is done
\* (a wait for the first completion); the tasks still running are left
\* running and counted DOWN.
JoinFirstCompleted ==
    /\ pc = "gather"
    /\ \E j \in 1..N : probe[j].st = "done"
    /\ results' = [j \in 1..N |->
          IF probe[j].st = "done" THEN <<probe[j].name, probe[j].status>>
          ELSE <<NameOf(config[j]), "DOWN">>]
    /\ domains_this_cycle' = {}
    /\ idx' = 1
    /\ pc' = "aggregate"
    /\ UNCHANGED <<config, session, cycle, now, check_cycle_start, probe,
                   domain_stats, key_order, time_elapsed, sleep_time, log, cycle_base,
                   committed>>

\* The tasks in the order they completed (the earlier index first among
\* those that completed at the same time).
CompletionOrder ==
    CHOOSE f \in [1..N -> 1..N] :
        /\ \A a, b \in 1..N : a # b => f[a] # f[b]
        /\ \A a, b \in 1..N : a < b =>
              \/ probe[f[a]].finished < probe[f[b]].finished
              \/ probe[f[a]].finished = probe[f[b]].finished /\ f[a] < f[b]

\* Faulty variant of Join: the results are collected as the tasks complete,
\* not in the order of the tasks.
JoinAsCompleted ==
    /\ pc = "gather"
    /\ \A j \in 1..N : probe[j].st = "done"
    /\ results' = [j \in 1..N |->
          <<probe[CompletionOrder[j]].name, probe[CompletionOrder[j]].status>>]
    /\ probe' = [j \in 1..N |-> Returned]
    /\ domains_this_cycle' = {}
    /\ idx' = 1
    /\ pc' = "aggregate"
    /\ UNCHANGED <<config, session, cycle, now, check_cycle_start,
                   domain_stats, key_order, time_elapsed, sleep_time, log, cycle_base,
                   committed>>

\* results = await gather(*tasks): every task returned, the results in the
\* order of the tasks; or a task raised and the exception leaves gather,
\* monitor_endpoints (closing the session) and asyncio.run.
Join ==
    /\ pc = "gather"
    /\ IF \E j \in 1..N : probe[j].st = "raised"
       THEN /\ pc' = "crashed"
            /\ session' = "closed"
            /\ UNCHANGED <<results, idx, domains_this_cycle, probe>>
       ELSE /\ \A j \in 1..N : probe[j].st = "done"
            /\ results' = [j \in 1..N |-> <<probe[j].name, probe[j].status>>]
            /\ probe' = [j \in 1..N |-> Returned]
            /\ domains_this_cycle' = {}
            /\ idx' = 1
            /\ pc' = "aggregate"
            /\ session' = session
    /\ UNCHANGED <<config, cycle, now, check_cycle_start,
                   domain_stats, key_order, time_elapsed, sleep_time, log, cycle_base,
                   committed>>


\* Faulty variant of Recorded: pairs of endpoints without a url are
\* recorded too (under the empty domain).
RecordedAlways(e) == TRUE

\* url = endpoint.get("url", ""); `if url`: the pair is recorded.
Recorded(e) == Get(e, "url", <<>>) # <<>>

\* Faulty variant of ProcessResult: domains_this_cycle collects only the
\* domains seen for the first time in this cycle.
ProcessResultNewDomains ==
    /\ pc = "aggregate"
    /\ idx <= N
    /\ LET e == config[idx]
           url == Get(e, "url", <<>>)
           status == results[idx][2]
       IN  IF ~Recorded(e)
           THEN /\ idx' = idx + 1
                /\ UNCHANGED <<pc, session, domains_this_cycle, domain_stats, key_order, log>>
           ELSE IF UrlparseRaises(url)
           THEN /\ pc' = "crashed"
                /\ session' = "closed"
                /\ UNCHANGED <<idx, domains_this_cycle, domain_stats, key_order, log>>
           ELSE LET domain == DomainOf(url)
                IN  /\ domains_this_cycle' =
                          IF domain \in DOMAIN domain_stats THEN domains_this_cycle
                          ELSE domains_this_cycle \cup {domain}
                    /\ log' = Append(log, [kind |-> "status", domain |-> domain,
                                           status |-> status])
                    /\ domain_stats' = Record(domain_stats, domain, status)
                    /\ key_order' = IF domain \in DOMAIN domain_stats
                                    THEN key_order ELSE Append(key_order, domain)
                    /\ idx' = idx + 1
                    /\ UNCHANGED <<pc, session>>
    /\ UNCHANGED <<config, cycle, now, check_cycle_start, probe,
                   results, time_elapsed, sleep_time, cycle_base, committed>>

\* One iteration of `for endpoint, (_, status) in zip(config, results)`.
\* urlparse raising leaves monitor_endpoints and asyncio.run: only
\* KeyboardInterrupt is caught at the entry point.
ProcessResult ==
    /\ pc = "aggregate"
    /\ idx <= N
    /\ LET e == config[idx]
           url == Get(e, "url", <<>>)
           status == results[idx][2]
       IN  IF ~Recorded(e)
           THEN /\ idx' = idx + 1
                /\ UNCHANGED <<pc, session, domains_this_cycle, domain_stats, key_order, log>>
           ELSE IF UrlparseRaises(url)
           THEN /\ pc' = "crashed"
                /\ session' = "closed"
                /\ UNCHANGED <<idx, domains_this_cycle, domain_stats, key_order, log>>
           ELSE LET domain == DomainOf(url)
                IN  /\ domains_this_cycle' = domains_this_cycle \cup {domain}
                    /\ log' = Append(log, [kind |-> "status", domain |-> domain,
                                           status |-> status])
                    /\ domain_stats' = Record(domain_stats, domain, status)
                    /\ key_order' = IF domain \in DOMAIN domain_stats
                                    THEN key_order ELSE Append(key_order, domain)
                    /\ idx' = idx + 1
                    /\ UNCHANGED <<pc, session>>
    /\ UNCHANGED <<config, cycle, now, check_cycle_start, probe,
                   results, time_elapsed, sleep_time, cycle_base, committed>>

\* Faulty variant of SleepTime: the remainder is not clamped at zero.
SleepTimeUnclamped(elapsed) == CycleInterval - elapsed

\* sleep_time = max(0, 15 - time_elapsed)
SleepTime(elapsed) == IF CycleInterval - elapsed > 0 THEN CycleInterval - elapsed ELSE 0

\* Faulty variant of Summary: the separator is logged right after the
\* summary line, before the availability lines.
SummarySeparatorFirst(d) ==
    /\ pc = "aggregate"
    /\ idx > N
    /\ d \in ProcDelays
    /\ log' = log
         \o <<[kind |-> "summary", endpoints |-> N,
               domains |-> Cardinality(domains_this_cycle)]>>
         \o <<[kind |-> "separator"]>>
         \o [k \in 1..Len(key_order) |->
               [kind |-> "availability", domain |-> key_order[k],
                pct |-> Availability(domain_stats[key_order[k]].up,
                                     domain_stats[key_order[k]].total)]]
    /\ now' = now + d
    /\ time_elapsed' = now' - check_cycle_start
    /\ sleep_time' = SleepTime(time_elapsed')
    /\ committed' = domain_stats
    /\ pc' = "sleep"
    /\ UNCHANGED <<config, session, cycle, check_cycle_start, probe,
                   results, idx, domains_this_cycle, domain_stats, key_order, cycle_base>>

\* After the loop: the summary line, one availability line per key of
\* domain_stats, the separator, then time_elapsed and sleep_time.  The
\* synchronous work since the join took d ticks.
Summary(d) ==
    /\ pc = "aggregate"
    /\ idx > N
    /\ d \in ProcDelays
    /\ log' = log
         \o <<[kind |-> "summary", endpoints |-> N,
               domains |-> Cardinality(domains_this_cycle)]>>
         \o [k \in 1..Len(key_order) |->
               [kind |-> "availability", domain |-> key_order[k],
                pct |-> Availability(domain_stats[key_order[k]].up,
                                     domain_stats[key_order[k]].total)]]
         \o <<[kind |-> "separator"]>>
    /\ now' = now + d
    /\ time_elapsed' = now' - check_cycle_start
    /\ sleep_time' = SleepTime(time_elapsed')
    /\ committed' = domain_stats
    /\ pc' = "sleep"
    /\ UNCHANGED <<config, session, cycle, check_cycle_start, probe,
                   results, idx, domains_this_cycle, domain_stats, key_order, cycle_base>>

\* await sleep(sleep_time) returns and `while True` goes round; a
\* non-positive delay returns at once.
WakeUp ==
    /\ pc = "sleep"
    /\ now' = now + (IF sleep_time > 0 THEN sleep_time ELSE 0)
    /\ pc' = "cycle_start"
    /\ UNCHANGED <<config, session, cycle, check_cycle_start, probe,
                   results, idx, domains_this_cycle, domain_stats, key_order,
                   time_elapsed, sleep_time, log, cycle_base, committed>>

\* Faulty variant of Cancel: the session is created without `async with`
\* and the way out on cancellation does not close it.
CancelNoRelease ==
    /\ Awaiting(pc)
    /\ probe' = [j \in 1..N |->
           IF probe[j].st \in {"created", "inflight"}
           THEN [probe[j] EXCEPT !.st = "cancelled"] ELSE probe[j]]
    /\ log' = Append(log, [kind |-> "stopped"])
    /\ pc' = "stopped"
    /\ UNCHANGED <<config, session, cycle, now, check_cycle_start, results,
                   idx, domains_this_cycle, domain_stats, key_order, time_elapsed,
                   sleep_time, cycle_base, committed>>

\* The operator's interrupt while the main task is suspended at an await:
\* CancelledError is raised there, gather cancels its tasks, the session is
\* closed on the way out of `async with`, asyncio.run raises
\* KeyboardInterrupt and the entry point logs the final message.  (An
\* interrupt during synchronous code is held by asyncio.run's handler until
\* the next await, which is this action taken there.)
Cancel ==
    /\ Awaiting(pc)
    /\ probe' = [j \in 1..N |->
           IF probe[j].st \in {"created", "inflight"}
           THEN [probe[j] EXCEPT !.st = "cancelled"] ELSE probe[j]]
    /\ session' = "closed"
    /\ log' = Append(log, [kind |-> "stopped"])
    /\ pc' = "stopped"
    /\ UNCHANGED <<config, cycle, now, check_cycle_start, results,
                   idx, domains_this_cycle, domain_stats, key_order, time_elapsed,
                   sleep_time, cycle_base, committed>>

Next ==
    \/ OpenSession
    \/ StartCycle
    \/ \E i \in 1..N : StartProbe(i)
    \/ \E i \in 1..N : \E o \in Outcomes : FinishProbe(i, o)
    \/ Tick
    \/ Join
    \/ ProcessResult
    \/ \E d \in ProcDelays : Summary(d)
    \/ WakeUp
    \/ Cancel

Spec == Init /\ [][Next]_vars


\* ================================================================ claims
\* What the claims mean by an endpoint without a url, and by a 2xx code.
NoUrl(e) == "url" \notin DOMAIN e \/ e.url = <<>>
HasUrl(e) == ~NoUrl(e)
Is2xx(c) == 200 <= c /\ c < 300

\* A request of endpoint i ended in a failure outcome.
Failed(i) ==
    \/ probe[i].outcome \in {"timeout", "error"}
    \/ probe[i].outcome = "response" /\ ~Is2xx(probe[i].code)

\* C1: check_health is total and fault-isolated: whatever the endpoint and
\* the outcome of its request (2xx, non-2xx, timeout, other error, no url),
\* the task ends with one (name, status) pair, status UP or DOWN, it never
\* lets an error reach the gather join, and every failure outcome is DOWN.
C1_CheckHealthTotal ==
    \A i \in 1..N :
        /\ probe[i].st # "raised"
        /\ probe[i].st = "done" =>
              /\ probe[i].status \in {"UP", "DOWN"}
              /\ probe[i].name \in {"svc-a", "svc-b", "svc-e", "svc-x", "unknown"}
              /\ (Failed(i) \/ NoUrl(config[i])) => probe[i].status = "DOWN"
        /\ probe[i].st # "done" => probe[i].status = "NONE"

\* Both failure paths of the try block have been taken in one cycle, and
\* both tasks returned DOWN.
C1_Witness ==
    /\ N = 2
    /\ pc = "gather"
    /\ probe[1].st = "done" /\ probe[1].outcome = "error" /\ probe[1].status = "DOWN"
    /\ probe[2].st = "done" /\ probe[2].outcome = "timeout" /\ probe[2].status = "DOWN"

\* C2: a response with status code c is classified UP iff 200 <= c < 300:
\* 199 is DOWN, 200 and 299 are UP, 300 is DOWN.
C2_Classification ==
    \A i \in 1..N :
        probe[i].outcome = "response" =>
            /\ probe[i].st = "done"
            /\ probe[i].status = "UP" <=> Is2xx(probe[i].code)
            /\ probe[i].status = "DOWN" <=> ~Is2xx(probe[i].code)
            /\ probe[i].code = 199 => probe[i].status = "DOWN"
            /\ probe[i].code = 200 => probe[i].status = "UP"
            /\ probe[i].code = 299 => probe[i].status = "UP"
            /\ probe[i].code = 300 => probe[i].status = "DOWN"

\* The two upper boundary codes have been answered in one cycle.
C2_Witness ==
    /\ N = 2
    /\ probe[1].outcome = "response" /\ probe[1].code = 299 /\ probe[1].status = "UP"
    /\ probe[2].outcome = "response" /\ probe[2].code = 300 /\ probe[2].status = "DOWN"

\* C3: an endpoint whose url is missing or empty is DOWN, and no HTTP
\* request is issued for it, in any cycle.
C3_NoUrlNoRequest ==
    \A i \in 1..N :
        NoUrl(config[i]) =>
            /\ probe[i].requests = 0
            /\ probe[i].st \in {"created", "done", "cancelled", "returned"}
            /\ probe[i].outcome = "none"
            /\ probe[i].st = "done" => probe[i].status = "DOWN"
            /\ pc \in {"aggregate", "sleep"} => results[i][2] = "DOWN"

\* In the second cycle, an endpoint with an empty url and one with no url
\* key have both returned, next to nothing requested.
C3_Witness ==
    /\ cycle = 2
    /\ N = 2
    /\ "url" \in DOMAIN config[1] /\ config[1].url = <<>>
    /\ "url" \notin DOMAIN config[2]
    /\ probe[1].st = "done" /\ probe[2].st = "done"

\* C4: up <= total for every key of domain_stats in every state; no step
\* removes a key or lowers a counter.
C4_CountersInv == \A d \in DOMAIN domain_stats : domain_stats[d].up <= domain_stats[d].total

C4_CountersStep ==
    \A d \in DOMAIN domain_stats :
        /\ d \in DOMAIN domain_stats'
        /\ domain_stats'[d].up >= domain_stats[d].up
        /\ domain_stats'[d].total >= domain_stats[d].total

C4_Counters == []C4_CountersInv /\ [][C4_CountersStep]_vars

\* Counters that grew over two cycles, with both UP and DOWN observed.
C4_Witness ==
    /\ cycle = 2
    /\ \E d \in DOMAIN domain_stats :
          domain_stats[d].total >= 3 /\ 0 < domain_stats[d].up
              /\ domain_stats[d].up < domain_stats[d].total

\* The status lines of this cycle for domain d, and those that say UP.
StatusLines(d) == {k \in 1..Len(log) : log[k].kind = "status" /\ log[k].domain = d}
UpLines(d) == {k \in StatusLines(d) : log[k].status = "UP"}

\* C5: recording is exact.  After k observations of a domain were recorded
\* in a cycle, u of them UP, its total is up by k and its up by u; one
\* record adds 1 to total, 1 to up iff the status is UP, and leaves the
\* other domains' counters alone.
C5_RecordedSoFar ==
    pc \in {"aggregate", "sleep"} =>
        \A d \in DOMAIN domain_stats \cup DOMAIN cycle_base :
            /\ StatsAt(domain_stats, d).total
                  = StatsAt(cycle_base, d).total + Cardinality(StatusLines(d))
            /\ StatsAt(domain_stats, d).up
                  = StatsAt(cycle_base, d).up + Cardinality(UpLines(d))

C5_OneRecord ==
    (pc = "aggregate" /\ idx' = idx + 1 /\ HasUrl(config[idx])) =>
        \E d \in DOMAIN domain_stats' :
            /\ domain_stats'[d].total = StatsAt(domain_stats, d).total + 1
            /\ domain_stats'[d].up
                  = StatsAt(domain_stats, d).up + (IF results[idx][2] = "UP" THEN 1 ELSE 0)
            /\ \A x \in DOMAIN domain_stats' \ {d} :
                  x \in DOMAIN domain_stats /\ domain_stats'[x] = domain_stats[x]

C5_RecordExact == []C5_RecordedSoFar /\ [][C5_OneRecord]_vars

\* Second cycle: two observations of one domain, one of them UP, recorded
\* on top of the first cycle's counters.
C5_Witness ==
    /\ cycle = 2
    /\ pc = "sleep"
    /\ \E d \in DOMAIN cycle_base :
          /\ Cardinality(StatusLines(d)) = 2
          /\ Cardinality(UpLines(d)) = 1
          /\ domain_stats[d].total = cycle_base[d].total + 2
          /\ domain_stats[d].up = cycle_base[d].up + 1


\* The sum of total over the keys of a domain_stats value.
RECURSIVE SumTotalOver(_, _)
SumTotalOver(stats, keys) ==
    IF keys = {} THEN 0
    ELSE LET d == CHOOSE x \in keys : TRUE
         IN  stats[d].total + SumTotalOver(stats, keys \ {d})
SumTotal(stats) == SumTotalOver(stats, DOMAIN stats)

\* The status lines emitted so far in this cycle, in order.
IsStatusLine(ev) == ev.kind = "status"
StatusSeq == SelectSeq(log, IsStatusLine)

\* The positions 1..n of the configured list whose endpoint has a url, in order.
WithUrl(n) ==
    LET Keep(j) == HasUrl(config[j])
    IN  SelectSeq([j \in 1..n |-> j], Keep)

\* The pairs the loop has processed in this cycle.
Processed == IF pc = "aggregate" THEN idx - 1 ELSE N

\* C6 as stated: after each cycle the sum of total over all domains has
\* grown by the number of configured endpoints, and as many status lines
\* were emitted, endpoints DOWN for a missing url included.
C6_EveryEndpointRecorded ==
    pc = "sleep" =>
        /\ SumTotal(domain_stats) = SumTotal(cycle_base) + N
        /\ Len(StatusSeq) = N

\* C6 (amended): of the pairs the loop has processed, exactly those whose
\* endpoint has a non-empty url are recorded and given a status line, in
\* configuration order and with the pair's own result; once all pairs are
\* processed the sum of total has grown by the number of endpoints with a
\* non-empty url, which is the number of status lines.
C6_EndpointsWithUrlRecorded ==
    pc \in {"aggregate", "sleep"} =>
        LET w == WithUrl(Processed)
        IN  /\ SumTotal(domain_stats) = SumTotal(cycle_base) + Len(w)
            /\ Len(StatusSeq) = Len(w)
            /\ \A k \in 1..Len(w) : StatusSeq[k].status = results[w[k]][2]

\* A cycle over an endpoint without a url and one with a url has ended:
\* one observation recorded, one status line, two endpoints queried.
C6_Witness ==
    /\ pc = "sleep"
    /\ N = 2
    /\ NoUrl(config[1])
    /\ HasUrl(config[2])
    /\ SumTotal(domain_stats) = SumTotal(cycle_base) + 1
    /\ Len(StatusSeq) = 1

\* C7: the sleep is max(0, 15 - elapsed), elapsed measured from the cycle's
\* start timestamp, never negative; the next cycle starts 15 s after this
\* one's start when the work took less than 15 s, and at once (no catching
\* up, no skipped cycle) when it took 15 s or more.
C7_Pacing ==
    /\ pc = "sleep" =>
          /\ time_elapsed = now - check_cycle_start
          /\ sleep_time >= 0
          /\ time_elapsed < CycleInterval => sleep_time = CycleInterval - time_elapsed
          /\ time_elapsed >= CycleInterval => sleep_time = 0
    /\ (pc = "cycle_start" /\ cycle >= 1) =>
          /\ time_elapsed < CycleInterval => now = check_cycle_start + CycleInterval
          /\ time_elapsed >= CycleInterval => now = check_cycle_start + time_elapsed

\* A cycle whose work outlasted the interval has slept 0 and the loop is
\* back at its top.
C7_Witness ==
    /\ pc = "cycle_start"
    /\ cycle = 1
    /\ time_elapsed > CycleInterval
    /\ sleep_time = 0
    /\ now = check_cycle_start + time_elapsed

\* The hostnames of the configured urls, as the claim reads them.
Host1 == <<"h", "o", "s", "t", "1">>
Host2 == <<"h", "o", "s", "t", "2">>
UrlsOn(h) ==
    IF h = Host1 THEN {UrlPing, UrlHealth} ELSE IF h = Host2 THEN {UrlHost2} ELSE {}
EndpointsOn(h) == {j \in 1..N : HasUrl(config[j]) /\ config[j].url \in UrlsOn(h)}

ScenarioConfig ==
    <<[name |-> "svc-a", url |-> UrlPing],
      [name |-> "svc-b", url |-> UrlHealth, method |-> "POST"]>>

AvailabilityLine(d, pct) ==
    \E k \in 1..Len(log) :
        log[k].kind = "availability" /\ log[k].domain = d /\ log[k].pct = pct

\* C8: endpoints on one hostname, whatever their path or port, count into
\* one bucket keyed by the hostname.  After n cycles its total is n times
\* the number of endpoints on the hostname, and each cycle adds the number
\* of their UP results to up.  Two endpoints on host1: both UP gives
\* up=2,total=2 and 100; then one DOWN gives up=3,total=4 and 75.
C8_SharedBucket ==
    /\ DOMAIN domain_stats \subseteq {Host1, Host2}
    /\ pc = "sleep" =>
          \A h \in {Host1, Host2} :
              /\ StatsAt(domain_stats, h).total = cycle * Cardinality(EndpointsOn(h))
              /\ StatsAt(domain_stats, h).total
                    = StatsAt(cycle_base, h).total + Cardinality(EndpointsOn(h))
              /\ StatsAt(domain_stats, h).up
                    = StatsAt(cycle_base, h).up
                        + Cardinality({j \in EndpointsOn(h) : results[j][2] = "UP"})
    /\ (pc = "sleep" /\ config = ScenarioConfig) =>
          /\ (cycle = 1 /\ results[1][2] = "UP" /\ results[2][2] = "UP") =>
                /\ domain_stats = (Host1 :> [up |-> 2, total |-> 2])
                /\ AvailabilityLine(Host1, 100)
          /\ (cycle_base = (Host1 :> [up |-> 2, total |-> 2])
                /\ results[1][2] = "UP" /\ results[2][2] = "DOWN") =>
                /\ domain_stats = (Host1 :> [up |-> 3, total |-> 4])
                /\ AvailabilityLine(Host1, 75)

\* The scenario's second cycle has ended.
C8_Witness ==
    /\ config = ScenarioConfig
    /\ pc = "sleep"
    /\ cycle = 2
    /\ cycle_base = (Host1 :> [up |-> 2, total |-> 2])
    /\ results[2][2] = "DOWN"
    /\ domain_stats = (Host1 :> [up |-> 3, total |-> 4])
    /\ AvailabilityLine(Host1, 75)


\* The probe phase of a cycle, as C9 describes it: no request completes
\* before every probe of the cycle has started; every probe starts at the
\* fan-out and ends within its own timeout, whatever the others do; a 2xx
\* answer is UP even when other probes fail; and when the last probe is
\* done the phase has lasted as long as the slowest probe, at most one
\* timeout, not the sum.
C9_ProbePhase ==
    /\ \A i \in 1..N :
          /\ probe[i].outcome # "none" => \A j \in 1..N : probe[j].st # "created"
          /\ probe[i].st \in {"inflight", "done"} =>
                probe[i].started = check_cycle_start
          /\ probe[i].st = "done" =>
                /\ probe[i].finished <= probe[i].started + Timeout
                /\ probe[i].finished <= now
                /\ (probe[i].outcome = "response" /\ Is2xx(probe[i].code)) =>
                      probe[i].status = "UP"
          /\ probe[i].st # "raised"
    /\ (pc = "gather" /\ \A i \in 1..N : probe[i].st = "done") =>
          /\ now <= check_cycle_start + Timeout
          /\ N > 0 => \E i \in 1..N : now = probe[i].finished

\* C9 as stated: the probe phase is concurrent and isolated as above, and a
\* failing endpoint never aborts the cycle or the loop.
C9_Isolation == C9_ProbePhase /\ pc # "crashed"

\* Two probes of one cycle are done, one answered at once and one ran into
\* its timeout, and the phase lasted one timeout.
C9_PhaseWitness ==
    /\ pc = "gather"
    /\ N = 2
    /\ probe[1].st = "done" /\ probe[1].outcome = "timeout"
    /\ probe[2].st = "done" /\ probe[2].outcome = "response" /\ probe[2].status = "UP"
    /\ probe[2].finished < probe[1].finished
    /\ now = check_cycle_start + Timeout

\* C10: cancellation can be delivered at both awaits of the loop, and the
\* shutdown it leads to is clean: no probe is left pending (the unfinished
\* ones are cancelled without a result), the session is closed, the final
\* message is the last record logged, and domain_stats is what it was when
\* the last aggregation phase ended (empty when none has).
C10_CleanShutdown ==
    /\ pc \in {"gather", "sleep"} => ENABLED Cancel
    /\ pc = "stopped" =>
          /\ \A j \in 1..N :
                /\ probe[j].st \notin {"created", "inflight"}
                /\ probe[j].st = "cancelled" => probe[j].status = "NONE"
          /\ session = "closed"
          /\ Len(log) >= 1
          /\ log[Len(log)].kind = "stopped"
          /\ \A k \in 1..(Len(log) - 1) : log[k].kind # "stopped"
          /\ domain_stats = committed
    /\ pc # "stopped" => \A k \in 1..Len(log) : log[k].kind # "stopped"

\* Cancelled in the fan-out of the second cycle with a request in flight:
\* the first cycle's counters are kept, the probe is abandoned.
C10_Witness ==
    /\ pc = "stopped"
    /\ cycle = 2
    /\ domain_stats # NoStats
    /\ domain_stats = committed
    /\ \E j \in 1..N : probe[j].st = "cancelled" /\ probe[j].requests = 1


\* ------------------------------------------- the summary step on its own
\* The availability loop over counters of any size.  One endpoint on host1
\* has been probed in MaxCount or fewer cycles; the state is the one right
\* after the aggregation loop of the latest cycle (total cycles so far, up
\* of them UP, the latest with status s), and the step is Summary.
SummaryInit ==
    \E total \in 1..MaxCount : \E s \in {"UP", "DOWN"} :
    \E up \in (IF s = "UP" THEN 1 ELSE 0)..(IF s = "UP" THEN total ELSE total - 1) :
        LET d == DomainOf(UrlPing)
            before == [up |-> up - (IF s = "UP" THEN 1 ELSE 0), total |-> total - 1]
        IN  /\ config = <<[name |-> "svc-a", url |-> UrlPing]>>
            /\ session = "open"
            /\ pc = "aggregate"
            /\ cycle = total
            /\ now = 0
            /\ check_cycle_start = 0
            /\ probe = <<Returned>>
            /\ results = <<<<"svc-a", s>>>>
            /\ idx = 2
            /\ domains_this_cycle = {d}
            /\ domain_stats = Record(IF total = 1 THEN NoStats ELSE (d :> before), d, s)
            /\ key_order = <<d>>
            /\ time_elapsed = 0
            /\ sleep_time = 0
            /\ log = <<[kind |-> "start"], [kind |-> "status", domain |-> d, status |-> s]>>
            /\ cycle_base = IF total = 1 THEN NoStats ELSE (d :> before)
            /\ committed = cycle_base

SummaryNext == \E d \in ProcDelays : Summary(d)

SummarySpec == SummaryInit /\ [][SummaryNext]_vars

\* ----------------------------------------------------------------- C11
Abs(x) == IF x < 0 THEN -x ELSE x

\* The counters an availability line of the log was computed from: the
\* counters do not change between the summary and the next cycle's start.
LineUp(k) == domain_stats[log[k].domain].up
LineTotal(k) == domain_stats[log[k].domain].total

\* C11: the availability reported for a domain is an integer in 0..100 and
\* a nearest integer to 100*up/total (2*|pct*total - 100*up| <= total); for
\* up=2, total=3 it is 67 and for up=1, total=3 it is 33; it is computed
\* from the counters when the line is written, and domain_stats stores the
\* two counters only.
C11_AvailabilityRounded ==
    /\ \A k \in 1..Len(log) :
          log[k].kind = "availability" =>
              /\ log[k].pct \in 0..100
              /\ 2 * Abs(log[k].pct * LineTotal(k) - 100 * LineUp(k)) <= LineTotal(k)
              /\ (LineUp(k) = 2 /\ LineTotal(k) = 3) => log[k].pct = 67
              /\ (LineUp(k) = 1 /\ LineTotal(k) = 3) => log[k].pct = 33
    /\ \A d \in DOMAIN domain_stats : DOMAIN domain_stats[d] = {"up", "total"}

\* The availability line of a domain with up=2, total=3 has been written,
\* and it says 67.
C11_Witness ==
    /\ pc = "sleep"
    /\ \E k \in 1..Len(log) :
          /\ log[k].kind = "availability"
          /\ LineUp(k) = 2 /\ LineTotal(k) = 3
          /\ log[k].pct = 67

\* ----------------------------------------------------------------- C12
\* A step of the program itself: any step but the operator's interrupt.
LoopStep ==
    \/ OpenSession
    \/ StartCycle
    \/ \E i \in 1..N : StartProbe(i)
    \/ \E i \in 1..N : \E o \in Outcomes : FinishProbe(i, o)
    \/ Tick
    \/ Join
    \/ ProcessResult
    \/ \E d \in ProcDelays : Summary(d)
    \/ WakeUp

\* C12: unless it was cancelled, the loop can always take its next step:
\* the join completes once every probe has completed or timed out, the
\* aggregation, the summary and the sleep follow, and a next cycle starts;
\* the loop never stops on its own.  (The loop is followed for MaxCycles
\* cycles only: the top of the loop after the last of them is where the
\* model, not the program, stops.)
C12_Progress ==
    \/ pc = "stopped"
    \/ pc = "cycle_start" /\ cycle = MaxCycles
    \/ ENABLED LoopStep

\* ----------------------------------------------------------------- C13
\* A line of the aggregation or of the summary: status, summary, availability.
IsReport(ev) == ev.kind \in {"status", "summary", "availability"}
Reports(l) == SelectSeq(l, IsReport)

\* Some probe of the current cycle has not been handed over by the join.
ProbesOutstanding == \E j \in 1..N : probe[j].st # "returned"

\* While a probe is outstanding the counters are those of the cycle's start
\* and the cycle has reported nothing.
C13_BeforeJoin ==
    ProbesOutstanding => domain_stats = cycle_base /\ Reports(log) = <<>>

\* A step that changes the counters or reports a line is a step of the
\* sequential phase after the join, with no probe outstanding.
C13_OnlyAfterJoin ==
    (domain_stats' # domain_stats \/ Len(Reports(log')) > Len(Reports(log)))
        => pc = "aggregate" /\ ~ProbesOutstanding

\* C13: fan-in barrier: domain_stats is mutated only in the sequential
\* phase after the join; while any probe of the cycle is in flight it is
\* unchanged, and no record, status line, summary or availability line of
\* the cycle happens before all the cycle's probes have returned.
C13_Barrier == []C13_BeforeJoin /\ [][C13_OnlyAfterJoin]_vars

\* In the second cycle one probe has completed and the other is still in
\* flight: the counters are still those the first cycle left.
C13_Witness ==
    /\ N = 2 /\ cycle = 2 /\ pc = "gather"
    /\ probe[1].st = "inflight" /\ probe[2].st = "done" /\ probe[2].status = "UP"
    /\ domain_stats # NoStats /\ domain_stats = cycle_base
    /\ Reports(log) = <<>>

\* ----------------------------------------------------------------- C14
\* The status the outcome of endpoint j's own probe stands for.
OwnStatus(j) ==
    IF probe[j].outcome = "response" /\ Is2xx(probe[j].code) THEN "UP" ELSE "DOWN"

\* The counters and the status lines the first n pairs of this cycle give,
\* taken in configuration order, as a function of the endpoint list, the
\* results and the counters at the cycle's start.
RECURSIVE StatsAfter(_)
StatsAfter(n) ==
    IF n = 0 THEN cycle_base
    ELSE IF NoUrl(config[n]) THEN StatsAfter(n - 1)
    ELSE LET prev == StatsAfter(n - 1)
             d == DomainOf(config[n].url)
             was == IF d \in DOMAIN prev THEN prev[d] ELSE [up |-> 0, total |-> 0]
         IN  [x \in DOMAIN prev \cup {d} |->
                 IF x = d
                 THEN [up |-> was.up + (IF results[n][2] = "UP" THEN 1 ELSE 0),
                       total |-> was.total + 1]
                 ELSE prev[x]]

RECURSIVE LinesAfter(_)
LinesAfter(n) ==
    IF n = 0 THEN <<>>
    ELSE IF NoUrl(config[n]) THEN LinesAfter(n - 1)
    ELSE Append(LinesAfter(n - 1),
                [kind |-> "status", domain |-> DomainOf(config[n].url),
                 status |-> results[n][2]])

\* After the join the counters and the status lines are those the pairs
\* processed so far give in configuration order.
C14_InConfigOrder ==
    pc \in {"aggregate", "sleep"} =>
        /\ Len(results) = N
        /\ domain_stats = StatsAfter(Processed)
        /\ StatusSeq = LinesAfter(Processed)

\* The join hands over, at place j, the result of endpoint j's own probe.
C14_OwnResult ==
    (pc = "gather" /\ pc' = "aggregate") =>
        \A j \in 1..N : results'[j][2] = OwnStatus(j)

\* C14: the i-th result is the i-th endpoint's, whatever order the probes
\* complete in, and the increments are applied in configuration order
\* after the join: the counters and the sequence of status lines are a
\* function of the endpoint list and the per-endpoint outcomes alone, so
\* runs that differ only in the interleaving of the probes agree on them.
C14_Deterministic == []C14_InConfigOrder /\ [][C14_OwnResult]_vars

\* The second endpoint's task completed first (it has no url and returns in
\* its first step, before the loop reads any response) and the first one's
\* request was then answered 2xx: the results are in the order of the
\* endpoints and the first endpoint's domain is UP.
C14_Witness ==
    /\ N = 2 /\ pc = "aggregate" /\ idx = 3
    /\ HasUrl(config[1]) /\ NoUrl(config[2])
    /\ results[1][2] = "UP" /\ results[2][2] = "DOWN"
    /\ Len(StatusSeq) = 1 /\ StatusSeq[1].status = "UP"

\* ----------------------------------------------------------------- C15
\* The method the configuration asks for: GET unless it names one.
ConfiguredMethod(e) == IF "method" \in DOMAIN e THEN e.method ELSE "GET"

\* A task never has more than one request, and a task past its first step
\* has sent the one request of an endpoint with a url, with the method the
\* configuration asks for.
C15_AtMostOnce ==
    \A j \in 1..N :
        /\ probe[j].requests <= 1
        /\ probe[j].st \in {"inflight", "done"} =>
              /\ probe[j].requests = IF HasUrl(config[j]) THEN 1 ELSE 0
              /\ HasUrl(config[j]) => probe[j].method = ConfiguredMethod(config[j])

\* When the join returns, every endpoint's task has run to its end: none
\* was skipped, and each endpoint with a url had exactly one request,
\* whatever the request's outcome.
C15_NoneSkipped ==
    (pc = "gather" /\ pc' = "aggregate") =>
        \A j \in 1..N :
            /\ probe[j].st = "done"
            /\ HasUrl(config[j]) => probe[j].requests = 1

\* C15: single attempt: in every cycle each configured endpoint with a
\* non-empty url causes exactly one HTTP request (no retry after a
\* timeout, an error or a non-2xx response, no endpoint skipped), sent
\* with the configured method, GET when the endpoint names none.
C15_SingleAttempt == []C15_AtMostOnce /\ [][C15_NoneSkipped]_vars

\* In the second cycle a GET by default has timed out and a configured POST
\* was answered 500: each was sent once and both tasks are done.
C15_Witness ==
    /\ N = 2 /\ cycle = 2 /\ pc = "gather"
    /\ "method" \notin DOMAIN config[1] /\ "method" \in DOMAIN config[2]
    /\ probe[1].st = "done" /\ probe[1].outcome = "timeout"
    /\ probe[1].requests = 1 /\ probe[1].method = "GET"
    /\ probe[2].st = "done" /\ probe[2].outcome = "response" /\ probe[2].code = 500
    /\ probe[2].requests = 1 /\ probe[2].method = "POST"

\* ----------------------------------------------------------------- C16
\* The lines check_health has logged for endpoint j in this cycle.
DiagLines(j) == {k \in 1..Len(log) : log[k].kind = "diag" /\ log[k].ep = j}
Warnings(j) == {k \in DiagLines(j) : log[k].level = "warning"}
Errors(j) == {k \in DiagLines(j) : log[k].level = "error"}

\* The name is there and is the empty string; the name is missing or empty.
EmptyName(e) == "name" \in DOMAIN e /\ e.name = ""
NoName(e) == "name" \notin DOMAIN e \/ e.name = ""

\* The call for endpoint j has returned, from one of the paths the spec
\* asks a diagnostic on: request error, timeout, missing name or url.
OnDiagnosticPath(j) ==
    \/ probe[j].outcome \in {"timeout", "error"}
    \/ NoUrl(config[j])
    \/ NoName(config[j])

Exited == pc \in {"stopped", "crashed"}

\* The session is absent before the loop's first step, open while the loop
\* runs and closed once it has ended, on either way out; a request in
\* flight has an open session.
C17_SessionScope ==
    /\ session = "none" <=> pc = "init"
    /\ session = "closed" <=> Exited
    /\ session = "open" <=> ~(pc = "init" \/ Exited)
    /\ \A j \in 1..N : probe[j].st = "inflight" => session = "open"

\* The session is created in one step, before the first cycle, and closed
\* in one step, for good; a request is sent on the open session only.
C17_OnceEach ==
    /\ session' # session =>
          \/ session = "none" /\ session' = "open" /\ cycle = 0
          \/ session = "open" /\ session' = "closed" /\ Exited'
    /\ (\E j \in 1..N : probe'[j].requests > probe[j].requests) =>
          session = "open" /\ session' = "open"

\* C17: the one HTTP session is created exactly once before the first
\* cycle, every probe of every cycle uses it, and it is released exactly
\* once on every way out of the loop, cancellation during the fan-out or
\* the sleep included; no probe is sent before it exists or after its
\* release.
C17_SessionLifecycle == []C17_SessionScope /\ [][C17_OnceEach]_vars

\* The interrupt came during the fan-out of the second cycle, with a
\* request in flight: the request is cancelled and the session is closed.
C17_Witness ==
    /\ pc = "stopped" /\ cycle = 2 /\ session = "closed"
    /\ \E j \in 1..N : probe[j].st = "cancelled" /\ probe[j].requests = 1

\* ----------------------------------------------------------------- C18
\* The keys the availability loop goes through are the keys of
\* domain_stats, each once, and each has been counted at least once.
C18_TotalPositive ==
    /\ \A d \in DOMAIN domain_stats : domain_stats[d].total >= 1
    /\ {key_order[k] : k \in 1..Len(key_order)} = DOMAIN domain_stats
    /\ Len(key_order) = Cardinality(DOMAIN domain_stats)
    /\ \A k \in 1..Len(log) :
          log[k].kind = "availability" =>
              /\ log[k].domain \in DOMAIN domain_stats
              /\ domain_stats[log[k].domain].total >= 1

\* A key appears in the step that counts its first observation, and in no
\* other step.
C18_CreatedCounted ==
    \A d \in DOMAIN domain_stats' \ DOMAIN domain_stats :
        /\ pc = "aggregate" /\ pc' = "aggregate" /\ idx' = idx + 1
        /\ domain_stats'[d].total = 1

\* C18: availability is never computed for a domain with zero total: every
\* key of domain_stats has total >= 1 whenever the availability loop reads
\* it, in every cycle, so 100*up/total never divides by zero; a key is
\* created only by the record step, which increments its total at once.
C18_NoZeroTotal == []C18_TotalPositive /\ [][C18_CreatedCounted]_vars

\* A domain that was DOWN at every observation of two cycles: its
\* availability line is computed from up = 0 and a positive total.
C18_Witness ==
    /\ pc = "sleep" /\ cycle = 2
    /\ \E k \in 1..Len(log) :
          /\ log[k].kind = "availability"
          /\ domain_stats[log[k].domain].up = 0
          /\ domain_stats[log[k].domain].total >= 2
          /\ log[k].pct = 0

\* ----------------------------------------------------------------- C19
\* The place of each kind of event in a cycle's output.
Rank(ev) ==
    CASE ev.kind = "start" -> 0
      [] ev.kind = "diag" -> 1
      [] ev.kind = "status" -> 2
      [] ev.kind = "summary" -> 3
      [] ev.kind = "availability" -> 4
      [] ev.kind = "separator" -> 5
      [] OTHER -> 6

KindLines(kind) == {k \in 1..Len(log) : log[k].kind = kind}

\* The endpoints with a url among the first n, in configuration order.
RECURSIVE UrlEndpoints(_)
UrlEndpoints(n) ==
    IF n = 0 THEN <<>>
    ELSE IF NoUrl(config[n]) THEN UrlEndpoints(n - 1)
    ELSE Append(UrlEndpoints(n - 1), n)

\* The events of the cycle so far are in the order start, diagnostics,
\* status lines, summary, availability lines, separator (then the final
\* message, if the loop was interrupted); start, summary and separator
\* come once at most; the status lines follow the configuration.
C19_InOrder ==
    /\ \A k \in 1..(Len(log) - 1) : Rank(log[k]) <= Rank(log[k + 1])
    /\ log # <<>> => log[1].kind = "start"
    /\ \A kind \in {"start", "summary", "separator"} : Cardinality(KindLines(kind)) <= 1
    /\ Len(StatusSeq) <= Len(UrlEndpoints(N))
    /\ \A k \in 1..Len(StatusSeq) :
          LET j == UrlEndpoints(N)[k]
          IN  /\ StatusSeq[k].status = results[j][2]
              /\ \E u \in UrlsOn(StatusSeq[k].domain) : config[j].url = u

\* When the sleep begins the cycle's output is complete: one summary line
\* with the number of endpoints and of this cycle's domains, one
\* availability line for each domain ever observed, and the separator last.
C19_CompleteAtSleep ==
    pc = "sleep" =>
        /\ Len(StatusSeq) = Len(UrlEndpoints(N))
        /\ \E k \in KindLines("summary") :
              /\ log[k].endpoints = N
              /\ log[k].domains = Cardinality({StatusSeq[i].domain : i \in 1..Len(StatusSeq)})
        /\ Cardinality(KindLines("availability")) = Cardinality(DOMAIN domain_stats)
        /\ {log[k].domain : k \in KindLines("availability")} = DOMAIN domain_stats
        /\ log[Len(log)].kind = "separator"

\* A cycle's first event follows the separator of the cycle before.
C19_NextAfterSeparator ==
    cycle' = cycle + 1 =>
        /\ log = <<>> \/ log[Len(log)].kind = "separator"
        /\ log' = <<[kind |-> "start"]>>

\* C19: per-cycle event order at the sink: the start marker first, then the
\* probes' diagnostics, then the status lines in configuration order, then
\* exactly one summary line (endpoint count, unique-domain count), then one
\* availability line for every domain ever observed, then the separator,
\* and only then the sleep; no event of cycle n+1 precedes the separator of
\* cycle n.
C19_EventOrder ==
    /\ []C19_InOrder
    /\ []C19_CompleteAtSleep
    /\ [][C19_NextAfterSeparator]_vars

\* The second cycle of two endpoints on two hosts is complete: start, a
\* diagnostic, two status lines, the summary, two availability lines and
\* the separator, and the loop sleeps.
C19_Witness ==
    /\ pc = "sleep" /\ cycle = 2 /\ N = 2
    /\ KindLines("diag") # {}
    /\ Len(StatusSeq) = 2
    /\ Cardinality(KindLines("availability")) = 2
    /\ log[Len(log)].kind = "separator"

\* ----------------------------------------------------------------- C20
\* What one cycle adds to the total of domain d.
CycleGain(d) ==
    domain_stats[d].total - (IF d \in DOMAIN cycle_base THEN cycle_base[d].total ELSE 0)

\* At the end of a cycle: the summary line reports as many domains as
\* domain_stats has keys, at most the number of endpoints with a url; from
\* the second cycle on the keys are those the cycle started with, and every
\* domain gained in this cycle what it gained in each cycle before, at
\* least 1.
C20_AtCycleEnd ==
    pc = "sleep" =>
        /\ \A k \in KindLines("summary") :
              /\ log[k].domains = Cardinality(DOMAIN domain_stats)
              /\ log[k].domains <= Len(UrlEndpoints(N))
        /\ KindLines("summary") # {}
        /\ cycle >= 2 => DOMAIN domain_stats = DOMAIN cycle_base
        /\ \A d \in DOMAIN domain_stats :
              /\ CycleGain(d) >= 1
              /\ domain_stats[d].total = cycle * CycleGain(d)

\* The set of keys changes in the first cycle only.
C20_KeysSettle ==
    DOMAIN domain_stats' # DOMAIN domain_stats => cycle = 1

\* C20: the endpoint list is read once and never changes, so the set of
\* keys of domain_stats is fixed from the end of the first cycle on; in
\* every cycle the reported unique-domain count is the number of keys of
\* domain_stats and at most the number of endpoints with a non-empty url,
\* and the total of every known domain grows by at least 1 per cycle, at
\* the rate of the first cycle.
C20_DomainsFixed == []C20_AtCycleEnd /\ [][C20_KeysSettle]_vars

\* The second cycle of two endpoints on one host has ended: one key, one
\* domain reported, and a total of 4, two per cycle.
C20_Witness ==
    /\ pc = "sleep" /\ cycle = 2 /\ N = 2
    /\ Cardinality(DOMAIN domain_stats) = 1
    /\ \E k \in KindLines("summary") : log[k].domains = 1 /\ log[k].endpoints = 2
    /\ \A d \in DOMAIN domain_stats : domain_stats[d].total = 4 /\ CycleGain(d) = 2
====
